---- MODULE Spec2Model ----
(***************************************************************************)
(* State-machine model of the SIPP police record system's server:          *)
(* server/routes.ts (the HTTP handlers), server/storage.ts (the record     *)
(* store access), server/auth.ts (session middleware, requireAuth) and     *)
(* shared/schema.ts (tables and input schemas).                            *)
(*                                                                         *)
(* A handler that awaits the store between a read and a write is modelled  *)
(* as one action per await-separated step, so that requests of different   *)
(* sessions interleave exactly where the code yields.  A session carries   *)
(* at most one request at a time.                                          *)
(***************************************************************************)
EXTENDS Integers, Sequences, FiniteSets, Bags, TLC

\* ------------------------------------------------------------------ bounds
MaxSid == 2
MaxUsers == 2
MaxLog == 3
MaxDetainees == 2
MaxSearchLog == 1
MaxAdminLog == 4

\* ------------------------------------------------------------- null values
NoUser == 0
NoSession == 0

Sids == 1..MaxSid
UserIds == 1..MaxUsers

\* --------------------------------------------------------------- constants
Roles == {"admin", "supervisor", "officer", "agent"}

AdminUsername == "admin"
AdminPassword == "123456"

\* Inputs a client may send as a username / password.  "ab" and "12345" are
\* too short for loginSchema.
Usernames == {"admin", "officer1", "ab"}
Passwords == {"123456", "secret1", "12345"}
NewPasswords == {"secret1"}

StrLen(str) ==
  CASE str = "admin" -> 5
    [] str = "officer1" -> 8
    [] str = "ab" -> 2
    [] str = "123456" -> 6
    [] str = "secret1" -> 7
    [] str = "12345" -> 5

MinUsernameLen == 3
MinPasswordLen == 6

loginSchema(username, password) ==
  StrLen(username) >= MinUsernameLen /\ StrLen(password) >= MinPasswordLen

\* bcrypt: a one-way hash, distinct from the clear text; compare re-hashes.
hashPassword(password) == <<"bcrypt", password>>
comparePassword(password, hash) == hash = hashPassword(password)

MsgBadCredentials == "Usuario o contrasena incorrectos"
MsgSessionConflict == "Este usuario ya tiene una sesion activa en otro dispositivo"
MsgLoginOk == "Inicio de sesion exitoso"
MsgInvalid == "Datos invalidos"
MsgServerError == "Error del servidor"
MsgLogoutOk == "Sesion cerrada exitosamente"
MsgLogoutError == "Error al cerrar sesion"
MsgUnauthorized == "No autorizado - Debe iniciar sesion"
MsgUserNotFound == "Usuario no encontrado"
MsgNone == ""

\* The fields of the user projection a login response carries.
LoginBody == {"id", "username", "firstName", "lastName", "email", "role"}
NoBody == {}

VARIABLES
  users,         \* table users: id -> row
  nextUserId,    \* the serial of users.id
  sessions,      \* table sessions (the session store): sid -> row state
  activityLogs,  \* table activity_logs: the bag of its rows (serial id left out)
  detainees,     \* table detainees, in insertion order
  searchLogs,    \* table search_logs: the bag of its rows (serial id left out)
  req,           \* per session: the request in flight and its position
  resp           \* the last response the server sent, and to which session

vars == <<users, nextUserId, sessions, activityLogs, detainees, searchLogs, req, resp>>

records == <<detainees, searchLogs>>

Idle == [pc |-> "idle", uid |-> NoUser]

\* results: the rows a search answers with (empty for every other answer).
Response(op, status, message, body) ==
  [op |-> op, status |-> status, message |-> message, body |-> body,
   results |-> <<>>]

Results(r, rows) == [r EXCEPT !.results = rows]

\* The response as recorded: with the session it answers.
Sent(s, r) ==
  [sid |-> s, op |-> r.op, status |-> r.status, message |-> r.message,
   body |-> r.body, results |-> r.results]

NoResponse == Sent(NoSession, Response("none", 0, MsgNone, NoBody))

\* ------------------------------------------------------------------ store
getUser(id) == IF id \in DOMAIN users THEN id ELSE NoUser

getUserByUsername(username) ==
  IF \E id \in DOMAIN users : users[id].username = username
    THEN CHOOSE id \in DOMAIN users : users[id].username = username
    ELSE NoUser

\* Mutant: a null session id is ignored instead of written.
updateUserSession_keepOnNull(userId, sessionId) ==
  [id \in DOMAIN users |->
     IF id = userId /\ sessionId # NoSession
       THEN [users[id] EXCEPT !.activeSessionId = sessionId]
       ELSE users[id]]

\* Mutant: the UPDATE has lost its WHERE clause.
updateUserSession_allRows(userId, sessionId) ==
  [id \in DOMAIN users |-> [users[id] EXCEPT !.activeSessionId = sessionId]]

\* UPDATE users SET active_session_id = sessionId WHERE id = userId
updateUserSession(userId, sessionId) ==
  [id \in DOMAIN users |->
     IF id = userId THEN [users[id] EXCEPT !.activeSessionId = sessionId]
                    ELSE users[id]]

\* activity_logs.user_id references users.id: the insert throws otherwise.
logActivityThrows(userId) == userId \notin DOMAIN users

logActivity(userId, action) ==
  activityLogs (+) SetToBag({[userId |-> userId, action |-> action]})

\* ---------------------------------------------------------------- sessions
\* st = "new": the client holds no stored session (express-session makes a
\* fresh one per request until something is saved); "stored": a row of the
\* session store; "gone": destroyed or expired, the id is never used again.
NewSession == [st |-> "new", userId |-> NoUser]
GoneSession == [st |-> "gone", userId |-> NoUser]
StoredSession(userId) == [st |-> "stored", userId |-> userId]

Live(s) == sessions[s].st = "stored"
Usable(s) == sessions[s].st # "gone"
CanStart(s) == Usable(s) /\ req[s].pc = "idle"

\* ------------------------------------------------------------------- Init
\* setupAuth has run: the default admin exists, nobody is logged in.
Init ==
  /\ users = (1 :> [username |-> AdminUsername,
                    password |-> hashPassword(AdminPassword),
                    role |-> "admin",
                    status |-> "active",
                    suspendedUntil |-> 0,
                    suspendedReason |-> "",
                    activeSessionId |-> NoSession])
  /\ nextUserId = 2
  /\ sessions = [s \in Sids |-> NewSession]
  /\ activityLogs = EmptyBag
  /\ detainees = <<>>
  /\ searchLogs = EmptyBag
  /\ req = [s \in Sids |-> Idle]
  /\ resp = NoResponse

\* ---------------------------------------------------- POST /api/auth/login
\* Mutant: the activeSessionId check is missing.
LoginOutcome_noConflict(username, password) ==
  LET uid == getUserByUsername(username) IN
  IF ~loginSchema(username, password) THEN Response("login", 400, MsgInvalid, NoBody)
  ELSE IF uid = NoUser THEN Response("login", 401, MsgBadCredentials, NoBody)
  ELSE IF ~comparePassword(password, users[uid].password)
    THEN Response("login", 401, MsgBadCredentials, NoBody)
  ELSE Response("login", 200, MsgLoginOk, LoginBody)

\* Mutant: an unknown username gets its own message.
LoginOutcome_userNotFound(username, password) ==
  LET uid == getUserByUsername(username) IN
  IF ~loginSchema(username, password) THEN Response("login", 400, MsgInvalid, NoBody)
  ELSE IF uid = NoUser THEN Response("login", 401, MsgUserNotFound, NoBody)
  ELSE IF ~comparePassword(password, users[uid].password)
    THEN Response("login", 401, MsgBadCredentials, NoBody)
  ELSE IF users[uid].activeSessionId # NoSession
    THEN Response("login", 409, MsgSessionConflict, NoBody)
  ELSE Response("login", 200, MsgLoginOk, LoginBody)

\* The decision taken from the row read by getUserByUsername.
LoginOutcome(username, password) ==
  LET uid == getUserByUsername(username) IN
  IF ~loginSchema(username, password) THEN Response("login", 400, MsgInvalid, NoBody)
  ELSE IF uid = NoUser THEN Response("login", 401, MsgBadCredentials, NoBody)
  ELSE IF ~comparePassword(password, users[uid].password)
    THEN Response("login", 401, MsgBadCredentials, NoBody)
  ELSE IF users[uid].activeSessionId # NoSession
    THEN Response("login", 409, MsgSessionConflict, NoBody)
  ELSE Response("login", 200, MsgLoginOk, LoginBody)

\* Parse, read the user, compare, check activeSessionId, set session.userId
\* (in the request's memory only: the store sees it when the response ends).
LoginStart(s, username, password) ==
  /\ CanStart(s)
  /\ LET out == LoginOutcome(username, password) IN
     IF out.status = 200
       THEN /\ req' = [req EXCEPT ![s] = [pc |-> "login_update",
                                          uid |-> getUserByUsername(username)]]
            /\ UNCHANGED <<resp, sessions>>
       ELSE /\ resp' = Sent(s, out)
            /\ UNCHANGED <<req, sessions>>
  /\ UNCHANGED <<users, nextUserId, activityLogs, records>>

\* await storage.updateUserSession(user.id, session.id)
LoginUpdate(s) ==
  /\ req[s].pc = "login_update"
  /\ users' = updateUserSession(req[s].uid, s)
  /\ req' = [req EXCEPT ![s].pc = "login_log"]
  /\ UNCHANGED <<nextUserId, sessions, activityLogs, records, resp>>

\* await storage.logActivity(...); res.json(...).  The modified session is
\* saved when the response ends, on the error path too.
LoginLog(s) ==
  /\ req[s].pc = "login_log"
  /\ IF logActivityThrows(req[s].uid)
       THEN /\ resp' = Sent(s, Response("login", 500, MsgServerError, NoBody))
            /\ UNCHANGED activityLogs
       ELSE /\ BagCardinality(activityLogs) < MaxLog
            /\ activityLogs' = logActivity(req[s].uid, "login")
            /\ resp' = Sent(s, Response("login", 200, MsgLoginOk, LoginBody))
  /\ sessions' = [sessions EXCEPT ![s] = StoredSession(req[s].uid)]
  /\ req' = [req EXCEPT ![s] = Idle]
  /\ UNCHANGED <<users, nextUserId, records>>

\* The store rejects the call (connection lost, statement timeout): the
\* await of updateUserSession throws, the catch answers 500.  session.userId
\* was already set, so the session is saved with it when the response ends.
LoginUpdateFails(s) ==
  /\ req[s].pc = "login_update"
  /\ resp' = Sent(s, Response("login", 500, MsgServerError, NoBody))
  /\ sessions' = [sessions EXCEPT ![s] = StoredSession(req[s].uid)]
  /\ req' = [req EXCEPT ![s] = Idle]
  /\ UNCHANGED <<users, nextUserId, activityLogs, records>>

\* The same failure in the await of logActivity: updateUserSession has
\* been applied.
LoginLogFails(s) ==
  /\ req[s].pc = "login_log"
  /\ resp' = Sent(s, Response("login", 500, MsgServerError, NoBody))
  /\ sessions' = [sessions EXCEPT ![s] = StoredSession(req[s].uid)]
  /\ req' = [req EXCEPT ![s] = Idle]
  /\ UNCHANGED <<users, nextUserId, activityLogs, records>>

\* --------------------------------------------------- POST /api/auth/logout
\* No userId: destroy at once.  Otherwise updateUserSession(userId, null).
LogoutStart(s) ==
  /\ CanStart(s)
  /\ IF sessions[s].userId = NoUser
       THEN /\ sessions' = [sessions EXCEPT ![s] = GoneSession]
            /\ resp' = Sent(s, Response("logout", 200, MsgLogoutOk, NoBody))
            /\ UNCHANGED <<users, req>>
       ELSE /\ users' = updateUserSession(sessions[s].userId, NoSession)
            /\ req' = [req EXCEPT ![s] = [pc |-> "logout_log", uid |-> sessions[s].userId]]
            /\ UNCHANGED <<sessions, resp>>
  /\ UNCHANGED <<nextUserId, activityLogs, records>>

\* await storage.logActivity(userId, 'logout', ...): a throw ends in the
\* catch with 500 and the session is not destroyed.
LogoutLog(s) ==
  /\ req[s].pc = "logout_log"
  /\ IF logActivityThrows(req[s].uid)
       THEN /\ resp' = Sent(s, Response("logout", 500, MsgLogoutError, NoBody))
            /\ req' = [req EXCEPT ![s] = Idle]
            /\ UNCHANGED activityLogs
       ELSE /\ BagCardinality(activityLogs) < MaxLog
            /\ activityLogs' = logActivity(req[s].uid, "logout")
            /\ req' = [req EXCEPT ![s].pc = "logout_destroy"]
            /\ UNCHANGED resp
  /\ UNCHANGED <<users, nextUserId, sessions, records>>

\* session.destroy(cb); cb answers 200.
LogoutDestroy(s) ==
  /\ req[s].pc = "logout_destroy"
  /\ sessions' = [sessions EXCEPT ![s] = GoneSession]
  /\ resp' = Sent(s, Response("logout", 200, MsgLogoutOk, NoBody))
  /\ req' = [req EXCEPT ![s] = Idle]
  /\ UNCHANGED <<users, nextUserId, activityLogs, records>>

\* ------------------------------------------------------- session expiry
\* The store drops a row whose ttl (7 days) has passed; no handler runs.
Expire(s) ==
  /\ Live(s)
  /\ req[s].pc = "idle"
  /\ sessions' = [sessions EXCEPT ![s] = GoneSession]
  /\ UNCHANGED <<users, nextUserId, activityLogs, records, req, resp>>

\* ------------------------------------------------------------ requireAuth
\* Mutant: the stale session.userId is not cleared.
requireAuth_noClear(s) ==
  IF sessions[s].userId = NoUser
    THEN [pass |-> FALSE, user |-> NoUser, message |-> MsgUnauthorized,
          session |-> sessions[s]]
  ELSE IF getUser(sessions[s].userId) = NoUser
    THEN [pass |-> FALSE, user |-> NoUser, message |-> MsgUserNotFound,
          session |-> sessions[s]]
  ELSE [pass |-> TRUE, user |-> sessions[s].userId, message |-> MsgNone,
        session |-> sessions[s]]

\* Mutant: a suspended user's session is refused.
requireAuth_activeOnly(s) ==
  IF sessions[s].userId = NoUser
    THEN [pass |-> FALSE, user |-> NoUser, message |-> MsgUnauthorized,
          session |-> sessions[s]]
  ELSE IF getUser(sessions[s].userId) = NoUser
    THEN [pass |-> FALSE, user |-> NoUser, message |-> MsgUserNotFound,
          session |-> StoredSession(NoUser)]
  ELSE IF users[sessions[s].userId].status = "suspended"
    THEN [pass |-> FALSE, user |-> NoUser, message |-> MsgUnauthorized,
          session |-> sessions[s]]
  ELSE [pass |-> TRUE, user |-> sessions[s].userId, message |-> MsgNone,
        session |-> sessions[s]]

\* auth.ts requireAuth: no session.userId -> 401; the user row is gone ->
\* session.userId = null (saved with the response) and 401; else next().
requireAuth(s) ==
  IF sessions[s].userId = NoUser
    THEN [pass |-> FALSE, user |-> NoUser, message |-> MsgUnauthorized,
          session |-> sessions[s]]
  ELSE IF getUser(sessions[s].userId) = NoUser
    THEN [pass |-> FALSE, user |-> NoUser, message |-> MsgUserNotFound,
          session |-> StoredSession(NoUser)]
  ELSE [pass |-> TRUE, user |-> sessions[s].userId, message |-> MsgNone,
        session |-> sessions[s]]

\* ------------------------------------------------------- role middleware
\* TRUE when the middleware calls next(), FALSE when it answers 403.
requireAdmin(role) == role = "admin"
\* Mutant: supervisors are left out.
requireSupervisorOrAdmin_adminOnly(role) == role = "admin"

requireSupervisorOrAdmin(role) == role = "admin" \/ role = "supervisor"
requireRegistrationAccess(role) == role \in {"admin", "officer", "supervisor"}
requireSearchAccess(role) == role \in {"admin", "officer", "supervisor", "agent"}

DashboardEndpoints == {"dashboard_stats", "dashboard_activities", "dashboard_weekly"}
RegistrationEndpoints == {"detainees_create"}
SearchEndpoints == {"search", "search_advanced"}
AdminEndpoints == {"admin_users_list", "admin_users_search", "admin_users_create",
                   "admin_users_update", "admin_users_suspend",
                   "admin_users_reactivate", "admin_users_delete"}
AuthOnlyEndpoints == {"auth_user", "detainees_list", "detainee_get", "ocr_process"}

Endpoints == DashboardEndpoints \cup RegistrationEndpoints \cup SearchEndpoints
               \cup AdminEndpoints \cup AuthOnlyEndpoints

\* The endpoints whose handler only reads.
ReadEndpoints == DashboardEndpoints \cup AuthOnlyEndpoints
                   \cup {"admin_users_list", "admin_users_search"}

\* The middleware chain of each route, after requireAuth.
RoleGuard(ep, role) ==
  IF ep \in DashboardEndpoints THEN requireSupervisorOrAdmin(role)
  ELSE IF ep \in RegistrationEndpoints THEN requireRegistrationAccess(role)
  ELSE IF ep \in SearchEndpoints THEN requireSearchAccess(role)
  ELSE IF ep \in AdminEndpoints THEN requireAdmin(role)
  ELSE TRUE

MsgForbidden == "Acceso denegado"

\* requireAuth, then the route's role middleware.
Gate(s, ep) ==
  LET a == requireAuth(s) IN
  IF ~a.pass
    THEN [pass |-> FALSE, user |-> NoUser, session |-> a.session,
          response |-> Response(ep, 401, a.message, NoBody)]
  ELSE IF ~RoleGuard(ep, users[a.user].role)
    THEN [pass |-> FALSE, user |-> a.user, session |-> a.session,
          response |-> Response(ep, 403, MsgForbidden, NoBody)]
  ELSE [pass |-> TRUE, user |-> a.user, session |-> a.session,
        response |-> Response(ep, 200, MsgNone, NoBody)]

\* Mutant: a request refused for its role leaves an audit row.
Reject_audited(s, ep) ==
  /\ CanStart(s)
  /\ ~Gate(s, ep).pass
  /\ resp' = Sent(s, Gate(s, ep).response)
  /\ sessions' = [sessions EXCEPT ![s] = Gate(s, ep).session]
  /\ activityLogs' = IF Gate(s, ep).user = NoUser THEN activityLogs
                      ELSE logActivity(Gate(s, ep).user, "denied")
  /\ UNCHANGED <<users, nextUserId, records, req>>

\* A request stopped by requireAuth or by the role middleware.
Reject(s, ep) ==
  /\ CanStart(s)
  /\ ~Gate(s, ep).pass
  /\ resp' = Sent(s, Gate(s, ep).response)
  /\ sessions' = [sessions EXCEPT ![s] = Gate(s, ep).session]
  /\ UNCHANGED <<users, nextUserId, activityLogs, records, req>>

\* A request that reaches a handler which only reads the store.
ReadRequest(s, ep) ==
  /\ CanStart(s)
  /\ ep \in ReadEndpoints
  /\ Gate(s, ep).pass
  /\ resp' = Sent(s, Response(ep, 200, MsgNone, NoBody))
  /\ UNCHANGED <<users, nextUserId, sessions, activityLogs, records, req>>

\* ------------------------------------------------- admin user management
NewUsernames == {"admin", "officer1"}

NewUser(username, password, role) ==
  [username |-> username, password |-> hashPassword(password), role |-> role,
   status |-> "active", suspendedUntil |-> 0, suspendedReason |-> "",
   activeSessionId |-> NoSession]

\* storage.createUser: INSERT ... RETURNING, id from the serial.
createUser(row) == users @@ (nextUserId :> row)

\* POST /api/admin/users
CreateUser(s, username, password, role) ==
  /\ CanStart(s)
  /\ Gate(s, "admin_users_create").pass
  /\ IF getUserByUsername(username) # NoUser
       THEN /\ resp' = Sent(s, Response("admin_users_create", 400,
                                        "El nombre de usuario ya existe", NoBody))
            /\ UNCHANGED <<users, nextUserId, activityLogs>>
       ELSE /\ nextUserId <= MaxUsers
            /\ BagCardinality(activityLogs) < MaxLog
            /\ users' = createUser(NewUser(username, password, role))
            /\ nextUserId' = nextUserId + 1
            /\ activityLogs' = logActivity(sessions[s].userId, "create_user")
            /\ resp' = Sent(s, Response("admin_users_create", 200, MsgNone,
                                        DOMAIN users'[nextUserId] \ {"password"}))
  /\ UNCHANGED <<sessions, records, req>>

\* DELETE FROM <log table> WHERE user_id = id: the rows that stay.
deleteLogsOf(log, id) ==
  [row \in {r \in DOMAIN log : r.userId # id} |-> log[row]]

\* detainees.registered_by references users.id with ON DELETE no action.
deleteUserThrows(id) ==
  \E i \in 1..Len(detainees) : detainees[i].registeredBy = id

\* storage.deleteUser: the three DELETE statements.
deleteUserRow(id) == [u \in DOMAIN users \ {id} |-> users[u]]

\* Mutant: the handler has no self-deletion check.
DeleteUser_noSelfCheck(s, id) ==
  /\ CanStart(s)
  /\ Gate(s, "admin_users_delete").pass
  /\ IF deleteUserThrows(id)
       THEN /\ activityLogs' = deleteLogsOf(activityLogs, id)
            /\ searchLogs' = deleteLogsOf(searchLogs, id)
            /\ resp' = Sent(s, Response("admin_users_delete", 500,
                                        "Error al eliminar usuario", NoBody))
            /\ UNCHANGED users
       ELSE /\ users' = deleteUserRow(id)
            /\ searchLogs' = deleteLogsOf(searchLogs, id)
            /\ activityLogs' = deleteLogsOf(activityLogs, id)
            /\ resp' = Sent(s, Response("admin_users_delete",
                                        IF id = sessions[s].userId THEN 500 ELSE 200,
                                        "Usuario eliminado exitosamente", NoBody))
  /\ UNCHANGED <<nextUserId, sessions, detainees, req>>

\* DELETE /api/admin/users/:id
DeleteUser(s, id) ==
  /\ CanStart(s)
  /\ Gate(s, "admin_users_delete").pass
  /\ IF id = sessions[s].userId
       THEN /\ resp' = Sent(s, Response("admin_users_delete", 400,
                                        "No puedes eliminarte a ti mismo", NoBody))
            /\ UNCHANGED <<users, activityLogs, searchLogs>>
       ELSE IF deleteUserThrows(id)
         THEN /\ activityLogs' = deleteLogsOf(activityLogs, id)
              /\ searchLogs' = deleteLogsOf(searchLogs, id)
              /\ resp' = Sent(s, Response("admin_users_delete", 500,
                                          "Error al eliminar usuario", NoBody))
              /\ UNCHANGED users
         ELSE /\ BagCardinality(deleteLogsOf(activityLogs, id)) < MaxLog
              /\ users' = deleteUserRow(id)
              /\ searchLogs' = deleteLogsOf(searchLogs, id)
              /\ activityLogs' = deleteLogsOf(activityLogs, id)
                                   (+) SetToBag({[userId |-> sessions[s].userId,
                                                  action |-> "delete_user"]})
              /\ resp' = Sent(s, Response("admin_users_delete", 200,
                                          "Usuario eliminado exitosamente", NoBody))
  /\ UNCHANGED <<nextUserId, sessions, detainees, req>>

\* The fields an admin may change through PUT /api/admin/users/:id, one
\* per request here.
Patches ==
  [field : {"role"}, value : Roles]
    \cup [field : {"username"}, value : {"officer1"}]
    \cup [field : {"status"}, value : {"active", "suspended"}]

\* storage.updateUser: UPDATE users SET ... WHERE id = id (no row: no change).
updateUser(id, patch) ==
  [u \in DOMAIN users |->
     IF u # id THEN users[u]
     ELSE IF patch.field = "role" THEN [users[u] EXCEPT !.role = patch.value]
     ELSE IF patch.field = "username" THEN [users[u] EXCEPT !.username = patch.value]
     ELSE [users[u] EXCEPT !.status = patch.value]]

\* storage.suspendUser
suspendUser(id, until, reason) ==
  [u \in DOMAIN users |->
     IF u # id THEN users[u]
     ELSE [users[u] EXCEPT !.status = "suspended", !.suspendedUntil = until,
                           !.suspendedReason = reason]]

\* Mutant: the reason of the suspension is kept.
reactivateUser_keepReason(id) ==
  [u \in DOMAIN users |->
     IF u # id THEN users[u]
     ELSE [users[u] EXCEPT !.status = "active", !.suspendedUntil = 0]]

\* storage.reactivateUser
reactivateUser(id) ==
  [u \in DOMAIN users |->
     IF u # id THEN users[u]
     ELSE [users[u] EXCEPT !.status = "active", !.suspendedUntil = 0,
                           !.suspendedReason = ""]]

\* The tail shared by update, suspend and reactivate: the store call has
\* returned the row or undefined, logActivity runs, then
\* `const { password, ...safeUser } = user` throws on undefined.
MsgAdminError(ep) ==
  CASE ep = "admin_users_update" -> "Error al actualizar usuario"
    [] ep = "admin_users_suspend" -> "Error al suspender usuario"
    [] ep = "admin_users_reactivate" -> "Error al reactivar usuario"

AdminAnswer(s, ep, id) ==
  IF id \in DOMAIN users
    THEN Sent(s, Response(ep, 200, MsgNone, DOMAIN users[id] \ {"password"}))
    ELSE Sent(s, Response(ep, 500, MsgAdminError(ep), NoBody))

\* PUT /api/admin/users/:id
UpdateUser(s, id, patch) ==
  /\ CanStart(s)
  /\ Gate(s, "admin_users_update").pass
  /\ IF /\ patch.field = "username"
        /\ getUserByUsername(patch.value) # NoUser
        /\ getUserByUsername(patch.value) # id
       THEN /\ resp' = Sent(s, Response("admin_users_update", 400,
                                        "El nombre de usuario ya existe", NoBody))
            /\ UNCHANGED <<users, activityLogs>>
       ELSE /\ BagCardinality(activityLogs) < MaxLog
            /\ users' = updateUser(id, patch)
            /\ activityLogs' = logActivity(sessions[s].userId, "update_user")
            /\ resp' = AdminAnswer(s, "admin_users_update", id)
  /\ UNCHANGED <<nextUserId, sessions, records, req>>

SuspendDates == {1}
SuspendReasons == {"pending review"}

\* POST /api/admin/users/:id/suspend
SuspendUser(s, id, until, reason) ==
  /\ CanStart(s)
  /\ Gate(s, "admin_users_suspend").pass
  /\ BagCardinality(activityLogs) < MaxLog
  /\ users' = suspendUser(id, until, reason)
  /\ activityLogs' = logActivity(sessions[s].userId, "suspend_user")
  /\ resp' = AdminAnswer(s, "admin_users_suspend", id)
  /\ UNCHANGED <<nextUserId, sessions, records, req>>

\* POST /api/admin/users/:id/reactivate
ReactivateUser(s, id) ==
  /\ CanStart(s)
  /\ Gate(s, "admin_users_reactivate").pass
  /\ BagCardinality(activityLogs) < MaxLog
  /\ users' = reactivateUser(id)
  /\ activityLogs' = logActivity(sessions[s].userId, "reactivate_user")
  /\ resp' = AdminAnswer(s, "admin_users_reactivate", id)
  /\ UNCHANGED <<nextUserId, sessions, records, req>>

\* ------------------------------- user management, one await at a time
\* POST and PUT /api/admin/users read the username (getUserByUsername) and
\* write the row in two awaits; requests of other sessions run in between.
\* CreateUser and UpdateUser above are the runs in which none does.
MsgUsernameExists == "El nombre de usuario ya existe"

\* users.username is UNIQUE: the INSERT throws on a stored username.
createUserThrows(username) ==
  \E id \in DOMAIN users : users[id].username = username

\* users.username is UNIQUE: the UPDATE throws when another row holds it.
updateUserThrows(id, patch) ==
  /\ id \in DOMAIN users
  /\ patch.field = "username"
  /\ \E other \in DOMAIN users \ {id} : users[other].username = patch.value

\* POST /api/admin/users up to the await of hashPassword/createUser.
CreateUserCheck(s, username, password, role) ==
  /\ CanStart(s)
  /\ Gate(s, "admin_users_create").pass
  /\ IF getUserByUsername(username) # NoUser
       THEN /\ resp' = Sent(s, Response("admin_users_create", 400,
                                        MsgUsernameExists, NoBody))
            /\ UNCHANGED req
       ELSE /\ nextUserId <= MaxUsers
            /\ req' = [req EXCEPT ![s] = [pc |-> "create_insert", uid |-> NoUser,
                                           data |-> NewUser(username, password, role)]]
            /\ UNCHANGED resp
  /\ UNCHANGED <<users, nextUserId, sessions, activityLogs, records>>

\* storage.createUser, logActivity, res.json: a throw of either store call
\* ends in the catch with 500.
CreateUserInsert(s) ==
  /\ req[s].pc = "create_insert"
  /\ IF createUserThrows(req[s].data.username)
       THEN /\ resp' = Sent(s, Response("admin_users_create", 500,
                                        "Error al crear usuario", NoBody))
            /\ UNCHANGED <<users, nextUserId, activityLogs>>
       ELSE /\ nextUserId <= MaxUsers
            /\ users' = createUser(req[s].data)
            /\ nextUserId' = nextUserId + 1
            /\ IF logActivityThrows(sessions[s].userId)
                 THEN /\ resp' = Sent(s, Response("admin_users_create", 500,
                                                  "Error al crear usuario", NoBody))
                      /\ UNCHANGED activityLogs
                 ELSE /\ BagCardinality(activityLogs) < MaxAdminLog
                      /\ activityLogs' = logActivity(sessions[s].userId, "create_user")
                      /\ resp' = Sent(s, Response("admin_users_create", 200, MsgNone,
                                                  DOMAIN req[s].data \ {"password"}))
  /\ req' = [req EXCEPT ![s] = Idle]
  /\ UNCHANGED <<sessions, records>>

\* PUT /api/admin/users/:id up to the await of storage.updateUser.
UpdateUserCheck(s, id, patch) ==
  /\ CanStart(s)
  /\ Gate(s, "admin_users_update").pass
  /\ IF /\ patch.field = "username"
        /\ getUserByUsername(patch.value) # NoUser
        /\ getUserByUsername(patch.value) # id
       THEN /\ resp' = Sent(s, Response("admin_users_update", 400,
                                        MsgUsernameExists, NoBody))
            /\ UNCHANGED req
       ELSE /\ req' = [req EXCEPT ![s] = [pc |-> "update_write", uid |-> id,
                                           patch |-> patch]]
            /\ UNCHANGED resp
  /\ UNCHANGED <<users, nextUserId, sessions, activityLogs, records>>

\* storage.updateUser, logActivity, res.json.
UpdateUserWrite(s) ==
  /\ req[s].pc = "update_write"
  /\ IF updateUserThrows(req[s].uid, req[s].patch)
       THEN /\ resp' = Sent(s, Response("admin_users_update", 500,
                                        "Error al actualizar usuario", NoBody))
            /\ UNCHANGED <<users, activityLogs>>
       ELSE /\ users' = updateUser(req[s].uid, req[s].patch)
            /\ IF logActivityThrows(sessions[s].userId)
                 THEN /\ resp' = Sent(s, Response("admin_users_update", 500,
                                                  "Error al actualizar usuario", NoBody))
                      /\ UNCHANGED activityLogs
                 ELSE /\ BagCardinality(activityLogs) < MaxAdminLog
                      /\ activityLogs' = logActivity(sessions[s].userId, "update_user")
                      /\ resp' = AdminAnswer(s, "admin_users_update", req[s].uid)
  /\ req' = [req EXCEPT ![s] = Idle]
  /\ UNCHANGED <<nextUserId, sessions, records>>

\* ----------------------------------------------------------- detainees
\* A string is kept as its sequence of characters.
CedulaInputs == {<<>>, <<"1">>, <<"v", "-", "1">>, <<"v", "1">>, <<"V", "1">>}

Lower(c) ==
  CASE c = "V" -> "v" [] c = "E" -> "e" [] c = "J" -> "j" [] c = "L" -> "l"
    [] OTHER -> c
Upper(c) ==
  CASE c = "v" -> "V" [] c = "e" -> "E" [] c = "j" -> "J" [] c = "l" -> "L"
    [] c = "u" -> "U" [] OTHER -> c

toUpperCase(str) == [i \in 1..Len(str) |-> Upper(str[i])]

startsWithPrefix(str) ==
  Len(str) >= 2 /\ Lower(str[1]) \in {"v", "e"} /\ str[2] = "-"

\* insertDetaineeSchema's transform of cedula.
normalizeCedula(val) ==
  IF ~startsWithPrefix(val) THEN <<"V", "-">> \o val ELSE toUpperCase(val)

\* The body of POST /api/detainees: the searchable fields of the form.
Form(cedula, fullName, state, municipality, parish) ==
  [cedula |-> cedula, fullName |-> fullName, state |-> state,
   municipality |-> municipality, parish |-> parish]

Forms ==
  {Form(<<"1">>, <<"J", "u">>, <<"Z">>, <<"m">>, <<"p">>),
   Form(<<"v", "-", "1">>, <<"J", "u">>, <<"Z">>, <<"m">>, <<"p">>),
   Form(<<"v", "1">>, <<"L", "u">>, <<"L">>, <<"m">>, <<"q">>),
   Form(<<"V", "1">>, <<"L", "u">>, <<"Z">>, <<"n">>, <<"p">>),
   Form(<<>>, <<"J", "u">>, <<"Z">>, <<"m">>, <<"p">>)}

\* insertDetaineeSchema.parse: cedula min(1), then the transform.
insertDetaineeSchemaThrows(form) == form.cedula = <<>>
insertDetaineeSchema(form) == [form EXCEPT !.cedula = normalizeCedula(@)]

\* created_at DEFAULT now(): the clock has advanced since the last insert
\* (tick 1) or reads the same instant (tick 0); the first insert reads 1.
Ticks == {0, 1}
now(tick) ==
  IF detainees = <<>> THEN 1 ELSE detainees[Len(detainees)].createdAt + tick

\* detainees.cedula is UNIQUE: the insert throws on a stored cedula.
createDetaineeThrows(cedula) ==
  \E i \in 1..Len(detainees) : detainees[i].cedula = cedula

\* INSERT INTO detainees: id is the serial, ascending in insertion order.
createDetainee(data, userId, createdAt) ==
  Append(detainees,
         [id |-> Len(detainees) + 1, cedula |-> data.cedula,
          fullName |-> data.fullName, state |-> data.state,
          municipality |-> data.municipality, parish |-> data.parish,
          registeredBy |-> userId, createdAt |-> createdAt])

\* POST /api/detainees
Register(s, form, tick) ==
  /\ CanStart(s)
  /\ Gate(s, "detainees_create").pass
  /\ IF insertDetaineeSchemaThrows(form)
       THEN /\ resp' = Sent(s, Response("detainees_create", 400, "Validation error", NoBody))
            /\ UNCHANGED <<detainees, activityLogs>>
       ELSE IF createDetaineeThrows(insertDetaineeSchema(form).cedula)
         THEN /\ resp' = Sent(s, Response("detainees_create", 500,
                                          "Failed to create detainee record", NoBody))
              /\ UNCHANGED <<detainees, activityLogs>>
         ELSE /\ Len(detainees) < MaxDetainees
              /\ detainees' = createDetainee(insertDetaineeSchema(form),
                                             sessions[s].userId, now(tick))
              /\ activityLogs' = logActivity(sessions[s].userId, "registration")
              /\ resp' = Sent(s, Response("detainees_create", 201, MsgNone, NoBody))
  /\ UNCHANGED <<users, nextUserId, sessions, searchLogs, req>>

\* ---------------------------------------------------------------- search
\* An optional field of a request body: absent, or present with a value.
Absent == [has |-> FALSE, val |-> <<>>]
Given(val) == [has |-> TRUE, val |-> val]

\* JavaScript truthiness of a string field: present and not "".
Truthy(c) == c.has /\ c.val # <<>>

\* A search body: the five searchable fields, and `other` for any key that
\* is none of them (address, phone, ...).
SearchKeys == <<"cedula", "fullName", "state", "municipality", "parish">>
BodyKeys == SearchKeys \o <<"other">>

Body(cedula, fullName, state, municipality, parish, other) ==
  [cedula |-> cedula, fullName |-> fullName, state |-> state,
   municipality |-> municipality, parish |-> parish, other |-> other]

Criteria ==
  {Body(Absent, Absent, Absent, Absent, Absent, Absent),
   Body(Given(<<>>), Absent, Absent, Absent, Absent, Absent),
   Body(Given(<<"1">>), Absent, Absent, Absent, Absent, Absent),
   Body(Given(<<"v", "-", "1">>), Absent, Absent, Absent, Absent, Absent),
   Body(Given(<<"V", "-", "1">>), Absent, Absent, Absent, Absent, Absent),
   Body(Given(<<"v", "1">>), Absent, Absent, Absent, Absent, Absent),
   Body(Absent, Given(<<"j">>), Absent, Absent, Absent, Absent),
   Body(Absent, Given(<<"_">>), Absent, Absent, Absent, Absent),
   Body(Absent, Given(<<>>), Absent, Absent, Absent, Absent),
   Body(Absent, Absent, Given(<<"Z">>), Absent, Absent, Absent),
   Body(Absent, Absent, Absent, Given(<<"m">>), Absent, Absent),
   Body(Absent, Absent, Absent, Absent, Given(<<"p">>), Absent),
   Body(Absent, Given(<<"u">>), Given(<<"Z">>), Absent, Absent, Absent),
   Body(Absent, Absent, Absent, Absent, Absent, Given(<<"x">>))}

\* searchDetaineeSchema.parse: cedula is optional but min(1) when given;
\* z.object drops the keys it does not declare.
searchDetaineeSchemaThrows(body) == body.cedula.has /\ body.cedula.val = <<>>
searchDetaineeSchema(body) == [body EXCEPT !.other = Absent]

\* SQL (I)LIKE: % matches any run of characters, _ any one character, every
\* other character itself, ignoring case.
RECURSIVE ILike(_, _)
ILike(str, pattern) ==
  IF pattern = <<>> THEN str = <<>>
  ELSE IF Head(pattern) = "%"
    THEN ILike(str, Tail(pattern)) \/ (str # <<>> /\ ILike(Tail(str), pattern))
  ELSE /\ str # <<>>
       /\ Head(pattern) = "_" \/ Lower(Head(str)) = Lower(Head(pattern))
       /\ ILike(Tail(str), Tail(pattern))

\* The WHERE clause: one condition per truthy field, joined by AND.
Matches(row, criteria) ==
  /\ Truthy(criteria.cedula) => row.cedula = criteria.cedula.val
  /\ Truthy(criteria.fullName)
       => ILike(row.fullName, <<"%">> \o criteria.fullName.val \o <<"%">>)
  /\ Truthy(criteria.state) => row.state = criteria.state.val
  /\ Truthy(criteria.municipality) => row.municipality = criteria.municipality.val
  /\ Truthy(criteria.parish) => row.parish = criteria.parish.val

Selected(criteria) ==
  {row \in {detainees[i] : i \in 1..Len(detainees)} : Matches(row, criteria)}

\* storage.searchDetainees: ORDER BY created_at DESC and nothing else, so
\* rows of equal created_at come in any order: the sequences it may return.
searchDetainees(criteria) ==
  {rows \in [1..Cardinality(Selected(criteria)) -> Selected(criteria)] :
     \A i, j \in DOMAIN rows :
       i < j => rows[i] # rows[j] /\ rows[i].createdAt >= rows[j].createdAt}

\* Mutant: the table size is logged in place of the number of rows returned.
logSearch_tableSize(userId, searchTerm, resultsCount) ==
  searchLogs (+) SetToBag({[userId |-> userId, searchTerm |-> searchTerm,
                            resultsCount |-> Len(detainees)]})

logSearch(userId, searchTerm, resultsCount) ==
  searchLogs (+) SetToBag({[userId |-> userId, searchTerm |-> searchTerm,
                            resultsCount |-> resultsCount]})

\* searchCriteria.cedula || 'simple search'
SimpleTerm(criteria) ==
  IF Truthy(criteria.cedula) THEN criteria.cedula.val ELSE <<"simple search">>

\* `Advanced: ` and the "key: value" of every non-empty entry, joined by ", ".
RECURSIVE JoinEntries(_, _)
JoinEntries(body, keys) ==
  IF keys = <<>> THEN <<>>
  ELSE LET rest == JoinEntries(body, Tail(keys)) IN
       IF ~Truthy(body[Head(keys)]) THEN rest
       ELSE <<Head(keys), ": ">> \o body[Head(keys)].val
              \o (IF rest = <<>> THEN <<>> ELSE <<", ">> \o rest)

AdvancedTerm(body) == <<"Advanced: ">> \o JoinEntries(body, BodyKeys)

\* Object.values(body).some(non-empty string)
hasValidCriteria(body) == \E i \in DOMAIN BodyKeys : Truthy(body[BodyKeys[i]])

\* POST /api/search (simple) and POST /api/search/advanced share this tail.
SearchAnswer(s, ep, action, searchTerm, results) ==
  /\ BagCardinality(searchLogs) < MaxSearchLog
  /\ searchLogs' = logSearch(sessions[s].userId, searchTerm, Len(results))
  /\ activityLogs' = logActivity(sessions[s].userId, action)
  /\ resp' = Sent(s, Results(Response(ep, 200, MsgNone, NoBody), results))

\* POST /api/search
Search(s, body) ==
  /\ CanStart(s)
  /\ Gate(s, "search").pass
  /\ IF searchDetaineeSchemaThrows(body)
       THEN /\ resp' = Sent(s, Response("search", 400, "Validation error", NoBody))
            /\ UNCHANGED <<searchLogs, activityLogs>>
       ELSE \E results \in searchDetainees(searchDetaineeSchema(body)) :
              SearchAnswer(s, "search", "search",
                           SimpleTerm(searchDetaineeSchema(body)), results)
  /\ UNCHANGED <<users, nextUserId, sessions, detainees, req>>

\* POST /api/search/advanced
AdvancedSearch(s, body) ==
  /\ CanStart(s)
  /\ Gate(s, "search_advanced").pass
  /\ IF ~hasValidCriteria(body)
       THEN /\ resp' = Sent(s, Response("search_advanced", 400,
                                        "Debe proporcionar al menos un criterio", NoBody))
            /\ UNCHANGED <<searchLogs, activityLogs>>
       ELSE \E results \in searchDetainees(body) :
              SearchAnswer(s, "search_advanced", "advanced_search",
                           AdvancedTerm(body), results)
  /\ UNCHANGED <<users, nextUserId, sessions, detainees, req>>

\* ------------------------------------------------------------ the router
\* app.<method>(path, requireAuth, <role middleware>, handler): what a request
\* of session s to endpoint ep can do, over every input of the handler.
Route(s, ep) ==
  \/ Reject(s, ep)
  \/ ReadRequest(s, ep)
  \/ /\ ep = "admin_users_create"
     /\ \E username \in NewUsernames, password \in NewPasswords, role \in Roles :
          CreateUser(s, username, password, role)
  \/ /\ ep = "admin_users_update"
     /\ \E id \in UserIds, patch \in Patches : UpdateUser(s, id, patch)
  \/ /\ ep = "admin_users_suspend"
     /\ \E id \in UserIds, until \in SuspendDates, reason \in SuspendReasons :
          SuspendUser(s, id, until, reason)
  \/ /\ ep = "admin_users_reactivate"
     /\ \E id \in UserIds : ReactivateUser(s, id)
  \/ /\ ep = "admin_users_delete"
     /\ \E id \in UserIds : DeleteUser(s, id)
  \/ /\ ep = "detainees_create"
     /\ \E form \in Forms, tick \in Ticks : Register(s, form, tick)
  \/ /\ ep = "search"
     /\ \E c \in Criteria : Search(s, c)
  \/ /\ ep = "search_advanced"
     /\ \E c \in Criteria : AdvancedSearch(s, c)

\* ------------------------------------------------------------ next-state
LoginNext ==
  \/ \E s \in Sids, username \in Usernames, password \in Passwords :
       LoginStart(s, username, password)
  \/ \E s \in Sids : LoginUpdate(s)
  \/ \E s \in Sids : LoginLog(s)

LogoutNext ==
  \/ \E s \in Sids : LogoutStart(s)
  \/ \E s \in Sids : LogoutLog(s)
  \/ \E s \in Sids : LogoutDestroy(s)

ExpireNext == \E s \in Sids : Expire(s)

RequestNext ==
  \/ \E s \in Sids, ep \in Endpoints : Reject(s, ep)
  \/ \E s \in Sids, ep \in ReadEndpoints : ReadRequest(s, ep)

DirectoryNext ==
  \/ \E s \in Sids, username \in NewUsernames, password \in NewPasswords, role \in Roles :
       CreateUser(s, username, password, role)
  \/ \E s \in Sids, id \in UserIds : DeleteUser(s, id)
  \/ \E s \in Sids, id \in UserIds, patch \in Patches : UpdateUser(s, id, patch)
  \/ \E s \in Sids, id \in UserIds, until \in SuspendDates, reason \in SuspendReasons :
       SuspendUser(s, id, until, reason)
  \/ \E s \in Sids, id \in UserIds : ReactivateUser(s, id)

RegistryNext ==
  \/ \E s \in Sids, form \in Forms, tick \in Ticks : Register(s, form, tick)
  \/ \E s \in Sids, c \in Criteria : Search(s, c)
  \/ \E s \in Sids, c \in Criteria : AdvancedSearch(s, c)

\* The handlers taken one await at a time, and the store failing under the
\* login handler.
StepwiseNext ==
  \/ \E s \in Sids, username \in NewUsernames, password \in NewPasswords, role \in Roles :
       CreateUserCheck(s, username, password, role)
  \/ \E s \in Sids : CreateUserInsert(s)
  \/ \E s \in Sids, id \in UserIds, patch \in Patches : UpdateUserCheck(s, id, patch)
  \/ \E s \in Sids : UpdateUserWrite(s)
  \/ \E s \in Sids : LoginUpdateFails(s)
  \/ \E s \in Sids : LoginLogFails(s)

\* The whole server.
Next ==
  \/ LoginNext
  \/ LogoutNext
  \/ ExpireNext
  \/ RequestNext
  \/ DirectoryNext
  \/ RegistryNext
  \/ StepwiseNext

Spec == Init /\ [][Next]_vars

\* Sessions and accounts: login, logout, expiry, GET /api/auth/user, and an
\* admin creating and deleting one officer account.
SessionNext ==
  \/ LoginNext
  \/ LogoutNext
  \/ ExpireNext
  \/ \E s \in Sids : Reject(s, "auth_user")
  \/ \E s \in Sids : ReadRequest(s, "auth_user")
  \/ \E s \in Sids : CreateUser(s, "officer1", "secret1", "officer")
  \/ \E s \in Sids, id \in UserIds : DeleteUser(s, id)

SessionSpec == Init /\ [][SessionNext]_vars

\* Deleted accounts: logins, every protected endpoint, and an admin creating
\* and deleting a second administrator.
DeletionNext ==
  \/ \E s \in Sids, username \in NewUsernames, password \in {AdminPassword, "secret1"} :
       LoginStart(s, username, password)
  \/ \E s \in Sids : LoginUpdate(s)
  \/ \E s \in Sids : LoginLog(s)
  \/ RequestNext
  \/ \E s \in Sids : CreateUser(s, "officer1", "secret1", "admin")
  \/ \E s \in Sids, id \in UserIds : DeleteUser(s, id)

DeletionSpec == Init /\ [][DeletionNext]_vars

\* The state after the default admin has logged in from session 1.
InitAdminLoggedIn ==
  /\ users = (1 :> [username |-> AdminUsername,
                    password |-> hashPassword(AdminPassword),
                    role |-> "admin",
                    status |-> "active",
                    suspendedUntil |-> 0,
                    suspendedReason |-> "",
                    activeSessionId |-> 1])
  /\ nextUserId = 2
  /\ sessions = [s \in Sids |-> IF s = 1 THEN StoredSession(1) ELSE NewSession]
  /\ activityLogs = SetToBag({[userId |-> 1, action |-> "login"]})
  /\ detainees = <<>>
  /\ searchLogs = EmptyBag
  /\ req = [s \in Sids |-> Idle]
  /\ resp = Sent(1, Response("login", 200, MsgLoginOk, LoginBody))

\* Role gating: the logged-in account's role is changed through
\* PUT /api/admin/users/:id and every endpoint is requested under each role.
RoleNext ==
  \/ RequestNext
  \/ \E s \in Sids : CreateUser(s, "officer1", "secret1", "officer")
  \/ \E s \in Sids, id \in UserIds : DeleteUser(s, id)
  \/ \E s \in Sids, patch \in [field : {"role"}, value : Roles] :
       UpdateUser(s, sessions[s].userId, patch)
  \/ \E s \in Sids, id \in UserIds \ {1}, until \in SuspendDates, reason \in SuspendReasons :
       SuspendUser(s, id, until, reason)
  \/ \E s \in Sids, id \in UserIds \ {1} : ReactivateUser(s, id)
  \/ \E s \in Sids : Register(s, Form(<<"1">>, <<"J", "u">>, <<"Z">>, <<"m">>, <<"p">>), 1)
  \/ \E s \in Sids : Search(s, Body(Given(<<"1">>), Absent, Absent, Absent, Absent, Absent))
  \/ \E s \in Sids :
       AdvancedSearch(s, Body(Given(<<"1">>), Absent, Absent, Absent, Absent, Absent))

RoleSpec == InitAdminLoggedIn /\ [][RoleNext]_vars

\* Registration: every form, and simple searches by cedula, by the
\* logged-in admin.
CedulaCriteria == {c \in Criteria : Truthy(c.cedula)}

RegisterNext ==
  \/ \E s \in Sids, form \in Forms, tick \in Ticks : Register(s, form, tick)
  \/ \E s \in Sids, c \in CedulaCriteria : Search(s, c)

RegisterSpec == InitAdminLoggedIn /\ [][RegisterNext]_vars

\* Search: both entry points over every body, on a table filled from three
\* forms, two of which normalize to the same cedula.
SearchForms == {f \in Forms : f.cedula \in {<<"1">>, <<"v", "-", "1">>, <<"v", "1">>}}

SearchNext ==
  \/ \E s \in Sids, form \in SearchForms, tick \in Ticks : Register(s, form, tick)
  \/ \E s \in Sids, c \in Criteria : Search(s, c)
  \/ \E s \in Sids, c \in Criteria : AdvancedSearch(s, c)

SearchSpec == InitAdminLoggedIn /\ [][SearchNext]_vars

\* Histories: the logged-in admin creates an officer account, the officer
\* logs in, both register a detainee and search; the admin deletes accounts.
HistoryForms == {f \in Forms : f.cedula = <<"1">>}
HistoryCriteria ==
  {c \in Criteria : c.cedula.val \in {<<"1">>, <<"V", "-", "1">>}}

HistoryNext ==
  \/ \E s \in Sids : LoginStart(s, "officer1", "secret1")
  \/ \E s \in Sids : LoginUpdate(s)
  \/ \E s \in Sids : LoginLog(s)
  \/ \E s \in Sids : CreateUser(s, "officer1", "secret1", "officer")
  \/ \E s \in Sids, form \in HistoryForms : Register(s, form, 1)
  \/ \E s \in Sids, c \in HistoryCriteria : Search(s, c)
  \/ \E s \in Sids, c \in HistoryCriteria : AdvancedSearch(s, c)
  \/ \E s \in Sids, id \in UserIds : DeleteUser(s, id)

HistorySpec == InitAdminLoggedIn /\ [][HistoryNext]_vars

\* Usernames: the logged-in admin creates a second administrator, who logs
\* in; both rename accounts to the same free username, step by step, and
\* delete each other's account.
RenamePatches == [field : {"username"}, value : {"chief"}]

UsernameNext ==
  \/ \E s \in Sids : CreateUserCheck(s, "officer1", "secret1", "admin")
  \/ \E s \in Sids : CreateUserInsert(s)
  \/ \E s \in Sids : LoginStart(s, "officer1", "secret1")
  \/ \E s \in Sids : LoginUpdate(s)
  \/ \E s \in Sids : LoginLog(s)
  \/ \E s \in Sids, id \in UserIds, patch \in RenamePatches : UpdateUserCheck(s, id, patch)
  \/ \E s \in Sids : UpdateUserWrite(s)
  \/ \E s \in Sids, id \in UserIds : DeleteUser(s, id)

UsernameSpec == InitAdminLoggedIn /\ [][UsernameNext]_vars

\* Suspension: the logged-in admin creates an officer account, suspends,
\* reactivates, updates the status of and deletes accounts by id (its own,
\* the officer's, and an id that matches no row); the officer logs in and
\* both request GET /api/auth/user.
StatusPatches == {patch \in Patches : patch.field = "status"}

SuspensionNext ==
  \/ \E s \in Sids : Reject(s, "auth_user")
  \/ \E s \in Sids : ReadRequest(s, "auth_user")
  \/ \E s \in Sids : CreateUser(s, "officer1", "secret1", "officer")
  \/ \E s \in Sids : LoginStart(s, "officer1", "secret1")
  \/ \E s \in Sids : LoginUpdate(s)
  \/ \E s \in Sids : LoginLog(s)
  \/ \E s \in Sids, id \in UserIds, until \in SuspendDates, reason \in SuspendReasons :
       SuspendUser(s, id, until, reason)
  \/ \E s \in Sids, id \in UserIds : ReactivateUser(s, id)
  \/ \E s \in Sids, id \in UserIds, patch \in StatusPatches : UpdateUser(s, id, patch)
  \/ \E s \in Sids, id \in UserIds : DeleteUser(s, id)

SuspensionSpec == InitAdminLoggedIn /\ [][SuspensionNext]_vars

\* Failing logins: the default admin logs in with good and bad credentials
\* while the store may reject the writes of the login handler; sessions
\* request GET /api/auth/user and log out.
FailureNext ==
  \/ \E s \in Sids, password \in Passwords : LoginStart(s, AdminUsername, password)
  \/ \E s \in Sids : LoginUpdate(s)
  \/ \E s \in Sids : LoginUpdateFails(s)
  \/ \E s \in Sids : LoginLog(s)
  \/ \E s \in Sids : LoginLogFails(s)
  \/ \E s \in Sids : Reject(s, "auth_user")
  \/ \E s \in Sids : ReadRequest(s, "auth_user")
  \/ LogoutNext

FailureSpec == Init /\ [][FailureNext]_vars

\* Rejections: every endpoint under every role and without a session,
\* handlers with valid and invalid bodies, and logins that are refused.
FrameCriteria ==
  {c \in Criteria : ~Truthy(c.fullName) /\ ~Truthy(c.state)
                      /\ ~Truthy(c.municipality) /\ ~Truthy(c.parish)
                      /\ c.cedula.val \in {<<>>, <<"1">>}}

FrameForms == {f \in Forms : f.cedula \in {<<>>, <<"1">>}}

FrameNext ==
  \/ \E s \in Sids, ep \in Endpoints : Reject(s, ep)
  \/ \E s \in Sids, patch \in [field : {"role"}, value : Roles] :
       UpdateUser(s, sessions[s].userId, patch)
  \/ \E s \in Sids : DeleteUser(s, sessions[s].userId)
  \/ \E s \in Sids, form \in FrameForms : Register(s, form, 1)
  \/ \E s \in Sids, c \in FrameCriteria : Search(s, c)
  \/ \E s \in Sids, c \in FrameCriteria : AdvancedSearch(s, c)
  \/ \E s \in Sids, username \in Usernames, password \in Passwords :
       LoginStart(s, username, password)

FrameSpec == InitAdminLoggedIn /\ [][FrameNext]_vars

\* ======================================================================
\* Properties
\* ======================================================================

\* A stored, unexpired session whose userId is u.
LoggedInAt(u, s) == Live(s) /\ sessions[s].userId = u

Quiescent == \A s \in Sids : req[s].pc = "idle"

\* The rows of activity_logs with this user and action.
LogRows(u, action) == CopiesIn([userId |-> u, action |-> action], activityLogs)

\* username/password are the credentials of the existing account u.
ValidCredentials(u, username, password) ==
  /\ u \in DOMAIN users
  /\ users[u].username = username
  /\ users[u].password = hashPassword(password)

\* A step in which session s's login request is parsed and decided: it
\* either is answered at once or goes on to its writes.
StartsLogin(s) ==
  /\ req[s].pc = "idle"
  /\ \/ req'[s].pc = "login_update"
     \/ resp'.sid = s /\ resp'.op = "login"

\* C1: of the concurrent logins to one account only one may win: a login
\* never replaces a non-null activeSessionId by another session's id, and a
\* login that answers success leaves activeSessionId equal to its own
\* session id.
C1_ConcurrentLoginExclusive ==
  [][/\ \A u \in DOMAIN users :
          (users[u].activeSessionId # NoSession /\ u \in DOMAIN users')
            => users'[u].activeSessionId \in {users[u].activeSessionId, NoSession}
     /\ \A s \in Sids :
          (/\ req[s].pc = "login_log"
           /\ req'[s].pc = "idle"
           /\ resp'.status = 200)
            => users'[req[s].uid].activeSessionId = s]_vars

\* C2: session exclusivity: between requests, every existing user is the
\* userId of at most one live session.
C2_OneLiveSessionPerUser ==
  Quiescent => \A u \in DOMAIN users : Cardinality({s \in Sids : LoggedInAt(u, s)}) <= 1

\* C3: when the logout of a session logged in as u completes, a login with
\* u's credentials is accepted, unless the account was meanwhile taken by a
\* login from a different session: the logged-out session leaves no lock.
C3_LogoutThenLogin ==
  [][\A s \in Sids, u \in UserIds :
       (/\ req[s].pc = "logout_destroy"
        /\ req[s].uid = u
        /\ req'[s].pc = "idle"
        /\ u \in DOMAIN users')
         => \/ users'[u].activeSessionId \notin {NoSession, s}
            \/ \A username \in Usernames, password \in Passwords :
                 ValidCredentials(u, username, password)'
                   => (LoginOutcome(username, password).status = 200)']_vars

\* C3 witness: an account that logged out is logged in again.
C3_Witness ==
  \E u \in DOMAIN users, s \in Sids :
    /\ LogRows(u, "logout") >= 1
    /\ LogRows(u, "login") >= 2
    /\ resp = Sent(s, Response("login", 200, MsgLoginOk, LoginBody))
    /\ LoggedInAt(u, s)
    /\ users[u].activeSessionId = s

\* C4: between requests, activeSessionId is non-null exactly for the users
\* that are logged in, and then names their live session.
C4_ActiveIffLoggedIn ==
  Quiescent =>
    \A u \in DOMAIN users :
      (users[u].activeSessionId # NoSession)
        <=> (\E s \in Sids : LoggedInAt(u, s) /\ users[u].activeSessionId = s)

\* C5: a login with valid credentials for an account whose activeSessionId
\* is set answers 409 and changes nothing: no row, no session, and every
\* session that authenticated before still does.
C5_ConflictChangesNothing ==
  [][\A s \in Sids :
       StartsLogin(s) =>
         \A username \in Usernames, password \in Passwords :
           (/\ \E u \in DOMAIN users :
                /\ ValidCredentials(u, username, password)
                /\ users[u].activeSessionId # NoSession
            /\ LoginStart(s, username, password))
             => /\ resp' = Sent(s, Response("login", 409, MsgSessionConflict, NoBody))
                /\ UNCHANGED <<users, nextUserId, sessions, activityLogs,
                               detainees, searchLogs, req>>
                /\ \A h \in Sids : requireAuth(h).pass => (requireAuth(h).pass)']_vars

\* C5 witness: a login was answered 409 while another session holds the
\* account and passes requireAuth.
C5_Witness ==
  /\ resp.op = "login"
  /\ resp.status = 409
  /\ \E u \in DOMAIN users, h \in Sids :
       /\ h # resp.sid
       /\ users[u].activeSessionId = h
       /\ LoggedInAt(u, h)
       /\ requireAuth(h).pass
       /\ sessions[resp.sid].userId = NoUser

\* C6: the writes of a successful login: updateUserSession sets the user's
\* activeSessionId to the session id and touches no other row; the final
\* step stores the session with the user's id, appends exactly one
\* {userId, "login"} row, changes nothing else and answers without a
\* password field.
C6_LoginEffects ==
  [][\A s \in Sids, u \in UserIds :
       /\ (req[s] = [pc |-> "login_update", uid |-> u] /\ req'[s].pc = "login_log")
            => /\ DOMAIN users' = DOMAIN users
               /\ \A id \in DOMAIN users :
                    users'[id] = IF id = u
                                   THEN [users[id] EXCEPT !.activeSessionId = s]
                                   ELSE users[id]
               /\ UNCHANGED <<nextUserId, sessions, activityLogs, detainees, searchLogs>>
       /\ (/\ req[s] = [pc |-> "login_log", uid |-> u]
           /\ req'[s].pc = "idle"
           /\ resp'.status = 200)
            => /\ resp'.sid = s
               /\ "password" \notin resp'.body
               /\ sessions' = [sessions EXCEPT ![s] = StoredSession(u)]
               /\ BagCardinality(activityLogs') = BagCardinality(activityLogs) + 1
               /\ LogRows(u, "login")' = LogRows(u, "login") + 1
               /\ UNCHANGED <<users, nextUserId, detainees, searchLogs>>]_vars

\* C6 witness: a login succeeded while a second account exists.
C6_Witness ==
  \E u \in DOMAIN users, s \in Sids :
    /\ Cardinality(DOMAIN users) >= 2
    /\ resp = Sent(s, Response("login", 200, MsgLoginOk, LoginBody))
    /\ LoggedInAt(u, s)
    /\ users[u].activeSessionId = s
    /\ LogRows(u, "login") >= 1

\* C7: a schema-valid login for an unknown username and one for a known
\* username with a wrong password get the same answer, 401 with the same
\* message, and change nothing.
C7_GenericCredentialError ==
  [][\A s \in Sids :
       StartsLogin(s) =>
         \A username \in Usernames, password \in Passwords :
           (/\ loginSchema(username, password)
            /\ \/ ~ \E u \in DOMAIN users : users[u].username = username
               \/ \E u \in DOMAIN users :
                    /\ users[u].username = username
                    /\ users[u].password # hashPassword(password)
            /\ LoginStart(s, username, password))
             => /\ resp' = Sent(s, Response("login", 401, MsgBadCredentials, NoBody))
                /\ UNCHANGED <<users, nextUserId, sessions, activityLogs,
                               detainees, searchLogs, req>>]_vars

\* C7 witness: a login was answered 401 while one of the offered usernames
\* exists and another does not.
C7_Witness ==
  /\ resp.op = "login"
  /\ resp.status = 401
  /\ resp.message = MsgBadCredentials
  /\ \E username \in Usernames : getUserByUsername(username) = NoUser
  /\ sessions[resp.sid].userId = NoUser

\* C8: logout always answers success, and the session it answered does not
\* authenticate afterwards.
C8_LogoutNeverFails ==
  resp.op = "logout" => (resp.status = 200 /\ ~requireAuth(resp.sid).pass)

\* C9: a request answered on any protected endpoint to a session whose
\* userId is a deleted user is answered 401, clears the session's userId and
\* touches no table.
C9_DeletedUserRejected ==
  [][\A s \in Sids :
       (/\ sessions[s].userId # NoUser
        /\ sessions[s].userId \notin DOMAIN users
        /\ resp'.sid = s) =>
         \A ep \in Endpoints :
           (resp'.op = ep /\ Route(s, ep))
             => /\ resp'.status = 401
                /\ sessions'[s].userId = NoUser
                /\ UNCHANGED <<users, nextUserId, activityLogs, detainees, searchLogs>>]_vars

\* C9 witness: a session of a deleted user was answered 401 "user not
\* found" and holds no userId any more.
C9_Witness ==
  /\ resp.op \in Endpoints
  /\ resp.status = 401
  /\ resp.message = MsgUserNotFound
  /\ sessions[resp.sid] = StoredSession(NoUser)
  /\ nextUserId > Cardinality(DOMAIN users) + 1

\* The role matrix of the specification, per capability.
AllowedRoles(ep) ==
  IF ep \in DashboardEndpoints THEN {"admin", "supervisor"}
  ELSE IF ep \in RegistrationEndpoints THEN {"admin", "supervisor", "officer"}
  ELSE IF ep \in SearchEndpoints THEN {"admin", "supervisor", "officer", "agent"}
  ELSE {"admin"}

store == <<users, nextUserId, activityLogs, detainees, searchLogs>>

\* C11: a request answered 400, 401 or 403 changes no row of the store, a
\* login refused for its body changes none either, and a request without an
\* authenticated session is answered 401.
C11_RejectionChangesNothing ==
  [][\A s \in Sids :
       resp'.sid = s =>
         /\ \A ep \in Endpoints :
              (resp'.op = ep /\ Route(s, ep))
                => /\ resp'.status \in {400, 401, 403} => UNCHANGED store
                   /\ ~requireAuth(s).pass => resp'.status = 401
         /\ \A username \in Usernames, password \in Passwords :
              (/\ resp'.op = "login"
               /\ ~loginSchema(username, password)
               /\ LoginStart(s, username, password))
                => (resp'.status = 400 /\ UNCHANGED store)]_vars

\* C11 witness: a registration was refused for its body while the store
\* holds a detainee and a search log.
C11_Witness ==
  /\ resp.op = "detainees_create"
  /\ resp.status = 400
  /\ Len(detainees) >= 1
  /\ BagCardinality(searchLogs) >= 1

\* C12: cedula is unique across the detainee rows, and a registration whose
\* normalized cedula is already stored is answered with a Conflict (409)
\* and leaves the store unchanged.
C12_DuplicateCedulaConflict ==
  [][/\ \A i, j \in DOMAIN detainees' :
          detainees'[i].cedula = detainees'[j].cedula => i = j
     /\ \A s \in Sids :
          (resp'.sid = s /\ resp'.op = "detainees_create") =>
            \A form \in Forms :
              (/\ ~insertDetaineeSchemaThrows(form)
               /\ createDetaineeThrows(insertDetaineeSchema(form).cedula)
               /\ \E tick \in Ticks : Register(s, form, tick))
                => (resp'.status = 409 /\ UNCHANGED store)]_vars

\* A cedula in normalized form: a "V-" or "E-" prefix and no lowercase letter.
IsNormalized(cedula) ==
  /\ Len(cedula) >= 2
  /\ cedula[1] \in {"V", "E"}
  /\ cedula[2] = "-"
  /\ \A i \in DOMAIN cedula : cedula[i] = Upper(cedula[i])

\* C13: every cedula stored by registration is in normalized form.
C13_StoredCedulaNormalized ==
  \A i \in DOMAIN detainees : IsNormalized(detainees[i].cedula)

\* None of the five searchable fields carries a non-empty value.
NoSearchableValue(body) ==
  \A i \in DOMAIN SearchKeys : ~Truthy(body[SearchKeys[i]])

\* C14: an advanced search in which none of the five searchable fields has
\* a non-empty value is answered 400, returns no rows and appends no
\* SearchLog or ActivityLog row.
C14_AdvancedNeedsCriterion ==
  [][\A s \in Sids :
       (resp'.sid = s /\ resp'.op = "search_advanced") =>
         \A body \in Criteria :
           (NoSearchableValue(body) /\ AdvancedSearch(s, body))
             => /\ resp'.status = 400
                /\ resp'.results = <<>>
                /\ UNCHANGED <<searchLogs, activityLogs>>]_vars

\* C15: a simple search without a cedula value (absent or empty) is
\* answered with a validation error, returns no rows and appends no
\* SearchLog or ActivityLog row.
C15_SimpleNeedsCedula ==
  [][\A s \in Sids :
       (resp'.sid = s /\ resp'.op = "search") =>
         \A body \in Criteria :
           (~Truthy(body.cedula) /\ Search(s, body))
             => /\ resp'.status = 400
                /\ resp'.results = <<>>
                /\ UNCHANGED <<searchLogs, activityLogs>>]_vars

\* str contains term as a substring, ignoring case.
ContainsIgnoringCase(str, term) ==
  \E k \in 0..(Len(str) - Len(term)) :
    \A j \in 1..Len(term) : Lower(str[k + j]) = Lower(term[j])

\* The conjunction of one predicate per field that carries a value.
Satisfies(row, body) ==
  /\ Truthy(body.cedula) => row.cedula = body.cedula.val
  /\ Truthy(body.fullName) => ContainsIgnoringCase(row.fullName, body.fullName.val)
  /\ Truthy(body.state) => row.state = body.state.val
  /\ Truthy(body.municipality) => row.municipality = body.municipality.val
  /\ Truthy(body.parish) => row.parish = body.parish.val

Rows(seq) == {seq[i] : i \in DOMAIN seq}

\* C16: an answered search returns exactly the stored detainees that satisfy
\* the conjunction of one predicate per field carrying a value: cedula
\* equal, fullName containing the term ignoring case, state, municipality
\* and parish equal.
C16_SearchIsConjunction ==
  [][\A s \in Sids :
       (resp'.sid = s /\ resp'.status = 200
        /\ resp'.op \in {"search", "search_advanced"}) =>
         \A body \in Criteria :
           (Search(s, body) \/ AdvancedSearch(s, body))
             => Rows(resp'.results)
                  = {row \in Rows(detainees) : Satisfies(row, body)}]_vars

\* C17: a detainee registered with cedula input c is returned by a simple
\* or advanced search whose only criterion is the same cedula input c.
C17_RegisterSearchRoundTrip ==
  [][\A s \in Sids :
       (resp'.sid = s /\ resp'.op \in {"search", "search_advanced"}) =>
         \A body \in CedulaCriteria :
           (Truthy(body.cedula) /\ (Search(s, body) \/ AdvancedSearch(s, body)))
             => \A row \in Rows(detainees) :
                  row.cedula = normalizeCedula(body.cedula.val)
                    => resp'.status = 200 /\ row \in Rows(resp'.results)]_vars

\* C18: the rows of an answered search are in descending order of createdAt
\* and, among rows of equal createdAt, in descending order of id.
C18_ResultsTotallyOrdered ==
  (resp.op \in {"search", "search_advanced"} /\ resp.status = 200) =>
    \A i, j \in DOMAIN resp.results :
      i < j => \/ resp.results[i].createdAt > resp.results[j].createdAt
               \/ /\ resp.results[i].createdAt = resp.results[j].createdAt
                  /\ resp.results[i].id > resp.results[j].id

\* log' is log with exactly one more row, and that row satisfies the
\* operator argument.
AppendsOne(log, logAfter, Row(_)) ==
  \E row \in DOMAIN logAfter :
    /\ Row(row)
    /\ logAfter = log (+) SetToBag({row})

\* C19: a search answered 200 appends exactly one SearchLog row and exactly
\* one ActivityLog row ("search" for the simple entry point,
\* "advanced_search" for the advanced one), both with the requesting user's
\* id, the SearchLog row with resultsCount equal to the number of rows
\* returned; users and detainees are unchanged.
C19_SearchAudited ==
  [][\A s \in Sids :
       (resp'.sid = s /\ resp'.status = 200
        /\ resp'.op \in {"search", "search_advanced"}) =>
         \A body \in Criteria :
           (Search(s, body) \/ AdvancedSearch(s, body))
             => /\ AppendsOne(searchLogs, searchLogs',
                     LAMBDA row : /\ row.userId = requireAuth(s).user
                                  /\ row.resultsCount = Len(resp'.results))
                /\ AppendsOne(activityLogs, activityLogs',
                     LAMBDA row : /\ row.userId = requireAuth(s).user
                                  /\ row.action = IF resp'.op = "search"
                                                    THEN "search"
                                                    ELSE "advanced_search")
                /\ UNCHANGED <<users, nextUserId, detainees>>]_vars

\* The officer account (id 2) has searched and got one row, while the
\* administrator's rows are in the activity log.
C19_Witness ==
  /\ resp.op \in {"search", "search_advanced"}
  /\ resp.status = 200
  /\ Len(resp.results) = 1
  /\ sessions[resp.sid].userId = 2
  /\ [userId |-> 2, searchTerm |-> <<"V", "-", "1">>, resultsCount |-> 1]
        \in DOMAIN searchLogs

\* C20: when an administrator's DELETE /api/admin/users/:id on an existing
\* account other than their own has been answered, the user row is gone and
\* no ActivityLog or SearchLog row with that userId remains.
C20_DeleteUserCascades ==
  [][\A s \in Sids :
       (resp'.sid = s /\ resp'.op = "admin_users_delete") =>
         \A id \in DOMAIN users :
           (id # sessions[s].userId /\ DeleteUser(s, id))
             => /\ id \notin DOMAIN users'
                /\ \A row \in DOMAIN activityLogs' : row.userId # id
                /\ \A row \in DOMAIN searchLogs' : row.userId # id]_vars

\* C21: an administrator's DELETE /api/admin/users/:id on their own id is
\* answered 400 "No puedes eliminarte a ti mismo" and changes nothing: no
\* user row (activeSessionId included), no SearchLog or ActivityLog row, and
\* no "delete_user" row is appended.
C21_SelfDeletionRejected ==
  [][\A s \in Sids :
       (resp'.sid = s /\ resp'.op = "admin_users_delete"
        /\ DeleteUser(s, sessions[s].userId))
         => /\ resp'.status = 400
            /\ resp'.message = "No puedes eliminarte a ti mismo"
            /\ UNCHANGED <<store, sessions>>]_vars

\* The administrator, holding activity and search rows, was refused.
C21_Witness ==
  /\ resp.op = "admin_users_delete"
  /\ resp.status = 400
  /\ sessions[resp.sid].userId = 1
  /\ users[1].activeSessionId = resp.sid
  /\ \E row \in DOMAIN searchLogs : row.userId = 1
  /\ \E row \in DOMAIN activityLogs : row.userId = 1 /\ row.action = "registration"

UsernamesUnique ==
  \A a, b \in DOMAIN users : users[a].username = users[b].username => a = b

\* C22: usernames are unique in every state, and a createUser or a
\* username-changing updateUser whose username is held by another row, at
\* the check or at the write, is answered with the duplicate-username
\* conflict (never a server error) and changes no row.
C22_UsernameConflict ==
  [][/\ UsernamesUnique'
     /\ \A s \in Sids :
          resp'.sid = s =>
            /\ (/\ resp'.op = "admin_users_create"
                /\ req[s].pc = "create_insert"
                /\ createUserThrows(req[s].data.username)
                /\ CreateUserInsert(s))
                 => /\ resp'.status # 500
                    /\ resp'.message = MsgUsernameExists
                    /\ UNCHANGED store
            /\ (/\ resp'.op = "admin_users_update"
                /\ req[s].pc = "update_write"
                /\ updateUserThrows(req[s].uid, req[s].patch)
                /\ UpdateUserWrite(s))
                 => /\ resp'.status # 500
                    /\ resp'.message = MsgUsernameExists
                    /\ UNCHANGED store]_vars

\* The step leaves username, password, role and activeSessionId of id, and
\* every other user row, as they were.
KeepsIdentity(id) ==
  /\ DOMAIN users' = DOMAIN users
  /\ users'[id].username = users[id].username
  /\ users'[id].password = users[id].password
  /\ users'[id].role = users[id].role
  /\ users'[id].activeSessionId = users[id].activeSessionId
  /\ \A other \in DOMAIN users \ {id} : users'[other] = users[other]

C24_SuspensionFieldsIffSuspended ==
  \A u \in DOMAIN users :
    (users[u].suspendedUntil # 0 /\ users[u].suspendedReason # "")
      <=> users[u].status = "suspended"

C26_AuditFailureNotMasking ==
  [][\A s \in Sids :
       (/\ resp'.sid = s
        /\ users' # users
        /\ \/ req[s].pc = "update_write" /\ UpdateUserWrite(s)
           \/ req[s].pc = "create_insert" /\ CreateUserInsert(s))
         => resp'.status = 200]_vars

\* C27: an administrator's update, suspend, reactivate or delete request
\* for an id that matches no user row is answered 404 and changes no row
\* (in particular it appends no ActivityLog row).
C27_MissingIdNotFound ==
  [][\A s \in Sids :
       resp'.sid = s =>
         \A id \in UserIds \ DOMAIN users :
           (\/ \E patch \in StatusPatches : UpdateUser(s, id, patch)
            \/ \E until \in SuspendDates, reason \in SuspendReasons :
                 SuspendUser(s, id, until, reason)
            \/ ReactivateUser(s, id)
            \/ DeleteUser(s, id))
             => resp'.status = 404 /\ UNCHANGED store]_vars

LogsOf(log, id) == {row \in DOMAIN log : row.userId = id}

\* C28: a DELETE /api/admin/users/:id on an existing account other than the
\* caller's is all-or-nothing: either the user row and all of its SearchLog
\* and ActivityLog rows are removed, or the request fails and the user row
\* and every one of its log rows are as before.
C28_DeleteUserAllOrNothing ==
  [][\A s \in Sids :
       (resp'.sid = s /\ resp'.op = "admin_users_delete") =>
         \A id \in DOMAIN users :
           (id # sessions[s].userId /\ DeleteUser(s, id))
             => \/ /\ id \notin DOMAIN users'
                   /\ LogsOf(activityLogs', id) = {}
                   /\ LogsOf(searchLogs', id) = {}
                \/ /\ resp'.status # 200
                   /\ id \in DOMAIN users' /\ users'[id] = users[id]
                   /\ \A row \in LogsOf(activityLogs, id) :
                        CopiesIn(row, activityLogs') = CopiesIn(row, activityLogs)
                   /\ \A row \in LogsOf(searchLogs, id) :
                        CopiesIn(row, searchLogs') = CopiesIn(row, searchLogs)]_vars

\* C29: no two user rows hold the same non-null activeSessionId.
C29_SessionIdentifiesOneUser ==
  \A a, b \in DOMAIN users :
    (users[a].activeSessionId # NoSession
     /\ users[a].activeSessionId = users[b].activeSessionId) => a = b

\* C30: a login that answers 400, 401, 409 or 500 to a session that was
\* not authenticated leaves it so: the session has no userId, does not pass
\* requireAuth, and no user's activeSessionId is that session.
C30_FailedLoginLeavesSessionUnauthenticated ==
  [][\A s \in Sids :
       (/\ resp'.sid = s /\ resp'.op = "login"
        /\ resp'.status \in {400, 401, 409, 500}
        /\ sessions[s].userId = NoUser
        /\ \/ \E password \in Passwords : LoginStart(s, AdminUsername, password)
           \/ LoginUpdateFails(s)
           \/ LoginLog(s)
           \/ LoginLogFails(s))
         => /\ sessions'[s].userId = NoUser
            /\ ~requireAuth(s).pass'
            /\ \A u \in DOMAIN users' : users'[u].activeSessionId # s]_vars

====
